---- MODULE Spec2Model ----
(***************************************************************************)
(* Roommate Rent & Utilities Dashboard (src/app.py).                       *)
(*                                                                         *)
(* Three specifications over one set of variables:                         *)
(*   SpecRetry : the retry executor _retry_sheets, one attempt per step.   *)
(*   Spec      : one Streamlit session: sidebar load, form submission      *)
(*               (attachment upload + row append per item), summary load.  *)
(*   SpecDrive : two sessions running upload_files_to_drive against the    *)
(*               shared Drive, ensure_folder split into its lookup and its *)
(*               create.                                                   *)
(***************************************************************************)
EXTENDS Integers, Sequences, FiniteSets, TLC

VARIABLES
    \* ---- _retry_sheets (one call in progress) ----
    r_pc,          \* "loop" | "returned" | "raised"
    r_attempts,    \* invocations of callable_fn so far (iterations of range(5))
    delay,         \* local `delay`
    last_err,      \* local `last_err`
    r_sleeps,      \* sequence of time.sleep arguments so far
    r_errors,      \* sequence of the errors callable_fn raised so far
    r_raised,      \* the error the executor propagated
    \* ---- configuration (st.secrets) ----
    SHEET_ID,          \* "" when unset
    DRIVE_FOLDER_ID,   \* Blank when unset
    \* ---- remote stores and process-wide caches ----
    sheet,         \* the workbook: [tab, row1, data]
    cache,         \* st.cache_data entry of load_entries_df_cached: [valid, df]
    folders,       \* Drive folders: set of [id, title, parent, trashed]
    files,         \* Drive files: set of [id, parent]
    nextId,        \* next id Drive hands out
    driveClient,   \* st.cache_resource holds a GoogleDrive client
    \* ---- one script run of one session ----
    pc,            \* "idle" | "form" | "upload" | "append" | "after" | "summary"
    batches,       \* forms submitted
    pending,       \* the submitted form's pending items
    idx,           \* position of the for-loop over pending
    links,         \* local `links` of the current item
    drive_error,   \* local `drive_error`
    df,            \* result of the last load: [ok, rows, remote]
    ui,            \* messages of this run: [error, success, warning, uncaught]
    hist,          \* what this run attempted, per item index
    lastEnsure,    \* the latest ensure_worksheet_and_headers call
    \* ---- sessions uploading concurrently (SpecDrive) ----
    ds,            \* per session: where its upload_files_to_drive call stands
    dlog,          \* ensure_folder calls that returned: [name, parent, id, created]
    interleaved    \* an ensure_folder call ran inside another one's lookup..create


retryVars == <<r_pc, r_attempts, delay, last_err, r_sleeps, r_errors, r_raised>>

configVars == <<SHEET_ID, DRIVE_FOLDER_ID>>

sheetVars == <<sheet, cache, lastEnsure>>

driveVars == <<folders, files, nextId, driveClient>>

runVars == <<pc, batches, pending, idx, links, drive_error, df, ui, hist>>

sessionVars == <<ds, dlog, interleaved>>

otherThanRetry == <<configVars, sheetVars, driveVars, runVars, sessionVars>>

vars == <<retryVars, configVars, sheetVars, driveVars, runVars, sessionVars>>

-----------------------------------------------------------------------------
(* Bounds of the model.                                                    *)

\* form submissions of the session
MaxBatches == 1

\* upload_files_to_drive calls of the sessions of SpecDrive, all together
MaxCalls == 2

-----------------------------------------------------------------------------
(* Errors.  An exception is a record: an HttpError with its status (0 when *)
(* neither status_code nor resp.status is set), or any other exception.    *)

NoErr == [kind |-> "None", status |-> 0]

HttpErr(s) == [kind |-> "HttpError", status |-> s]

\* an exception that is not an HttpError (transport, auth refresh, ...)
OtherErr == [kind |-> "Other", status |-> 0]

RuntimeErr == [kind |-> "RuntimeError", status |-> 0]

\* any exception of the Drive client (PyDrive2)
DriveErr == [kind |-> "DriveError", status |-> 0]

\* Statuses callable_fn may fail with: both sides of 500 and of 600, and 0.
Statuses == {0, 401, 404, 499, 500, 503, 599, 600}

Errors == {HttpErr(s) : s \in Statuses} \cup {OtherErr}

-----------------------------------------------------------------------------
(* _retry_sheets, one attempt per step                                     *)

MaxAttempts == 5

DelayCap == 8

InitialDelay == 1

IsTransientNoUpperBound(e) == e.kind = "HttpError" /\ e.status # 0 /\ 500 <= e.status

\* except HttpError as e: ... if status and 500 <= int(status) < 600
IsTransient(e) ==
    e.kind = "HttpError" /\ e.status # 0 /\ 500 <= e.status /\ e.status < 600

NextDelayNoDoubling(d) == d

\* delay = min(delay * 2, 8)
NextDelay(d) == IF d * 2 < DelayCap THEN d * 2 ELSE DelayCap

RetryInit ==
    /\ r_pc = "loop"
    /\ r_attempts = 0
    /\ delay = InitialDelay
    /\ last_err = NoErr
    /\ r_sleeps = <<>>
    /\ r_errors = <<>>
    /\ r_raised = NoErr

\* return callable_fn(*args, **kwargs)
RetryAttemptOk ==
    /\ r_pc = "loop"
    /\ r_attempts < MaxAttempts
    /\ r_attempts' = r_attempts + 1
    /\ r_pc' = "returned"
    /\ UNCHANGED <<delay, last_err, r_sleeps, r_errors, r_raised, otherThanRetry>>

\* callable_fn raised a transient HttpError: remember, sleep, double, continue
RetryAttemptTransient ==
    /\ r_pc = "loop"
    /\ r_attempts < MaxAttempts
    /\ \E e \in Errors :
        /\ IsTransient(e)
        /\ r_attempts' = r_attempts + 1
        /\ r_errors' = Append(r_errors, e)
        /\ last_err' = e
        /\ r_sleeps' = Append(r_sleeps, delay)
        /\ delay' = NextDelay(delay)
    /\ UNCHANGED <<r_pc, r_raised, otherThanRetry>>

\* callable_fn raised anything else: `raise` (HttpError) or not caught at all
RetryAttemptPermanent ==
    /\ r_pc = "loop"
    /\ r_attempts < MaxAttempts
    /\ \E e \in Errors :
        /\ ~IsTransient(e)
        /\ r_attempts' = r_attempts + 1
        /\ r_errors' = Append(r_errors, e)
        /\ r_raised' = e
        /\ r_pc' = "raised"
    /\ UNCHANGED <<delay, last_err, r_sleeps, otherThanRetry>>

\* the for loop ran out: raise last_err if last_err else RuntimeError(...)
RetryExhausted ==
    /\ r_pc = "loop"
    /\ r_attempts = MaxAttempts
    /\ r_raised' = IF last_err # NoErr THEN last_err ELSE RuntimeErr
    /\ r_pc' = "raised"
    /\ UNCHANGED <<r_attempts, delay, last_err, r_sleeps, r_errors, otherThanRetry>>

(* The same loop as a function of what the attempts do: outs[i] is NoErr   *)
(* when attempt i returns, else the exception it raises.  The value is     *)
(* NoErr when _retry_sheets returns, else the exception it propagates.     *)
RECURSIVE RetryLoop(_, _, _)
RetryLoop(outs, i, last) ==
    IF i > MaxAttempts THEN (IF last # NoErr THEN last ELSE RuntimeErr)
    ELSE IF outs[i] = NoErr THEN NoErr
    ELSE IF IsTransient(outs[i]) THEN RetryLoop(outs, i + 1, outs[i])
    ELSE outs[i]

\* what one attempt of a Sheets request does in Spec
AttemptOutcomes == {NoErr, HttpErr(503), OtherErr}

\* the results of one _retry_sheets(request.execute) call
SheetsCallResults ==
    {RetryLoop(o, 1, NoErr) : o \in [1..MaxAttempts -> AttemptOutcomes]}

-----------------------------------------------------------------------------
(* The tabular store.  sheet = [tab, row1, data]: whether the WORKSHEET tab *)
(* exists, the cells of its row 1, and the rows below it (range A2:I).     *)

HEADERS ==
    <<"timestamp", "roommate", "month", "category",
      "amount", "status", "date", "notes", "file_links">>

\* column I of the ranges "A1:I1", "A:I", "A2:I"
RangeCols == 9

Min(a, b) == IF a < b THEN a ELSE b

GetFirstRowWholeRow(sh) == IF sh.row1 = <<>> THEN <<>> ELSE <<sh.row1>>

\* values().get(range="Entries!A1:I1").execute().get("values", [])
GetFirstRow(sh) ==
    IF sh.row1 = <<>> THEN <<>>
    ELSE <<SubSeq(sh.row1, 1, Min(RangeCols, Len(sh.row1)))>>

UpdateHeaderRowClearing(sh) == [sh EXCEPT !.row1 = HEADERS, !.data = <<>>]

\* values().update(range="Entries!A1", body={"values": [HEADERS]})
UpdateHeaderRow(sh) ==
    [sh EXCEPT !.row1 = HEADERS \o SubSeq(@, Len(HEADERS) + 1, Len(@))]

\* batchUpdate(addSheet {title: WORKSHEET})
AddSheet(sh) == [tab |-> TRUE, row1 |-> <<>>, data |-> <<>>]

\* values().append(range="Entries!A:I", insertDataOption="INSERT_ROWS")
AppendValues(sh, row) == [sh EXCEPT !.data = Append(@, row)]

\* values().get(range="Entries!A2:I").execute().get("values", [])
GetDataRows(sh) == sh.data

\* if not values or values[0] != HEADERS
HeaderMismatch(values) == values = <<>> \/ values[1] # HEADERS

EnsureResult(sh, w, e, before) ==
    [sheet |-> sh, writes |-> w, err |-> e,
     tabBefore |-> before.tab, rowBefore |-> before.row1]

(* ensure_worksheet_and_headers: o1, o2, o3 are the results of its up to   *)
(* three _retry_sheets calls, in order.  writes counts header writes.      *)
EnsureWorksheetAndHeaders(sh, o1, o2, o3) ==
    IF SHEET_ID = "" THEN EnsureResult(sh, 0, RuntimeErr, sh)
    ELSE IF o1 # NoErr THEN EnsureResult(sh, 0, o1, sh)
    ELSE IF ~sh.tab THEN
        IF o2 # NoErr THEN EnsureResult(sh, 0, o2, sh)
        ELSE IF o3 # NoErr THEN EnsureResult(AddSheet(sh), 0, o3, sh)
        ELSE EnsureResult(UpdateHeaderRow(AddSheet(sh)), 1, NoErr, sh)
    ELSE IF o2 # NoErr THEN EnsureResult(sh, 0, o2, sh)
    ELSE IF HeaderMismatch(GetFirstRow(sh)) THEN
        IF o3 # NoErr THEN EnsureResult(sh, 0, o3, sh)
        ELSE EnsureResult(UpdateHeaderRow(sh), 1, NoErr, sh)
    ELSE EnsureResult(sh, 0, NoErr, sh)

(* What is remembered of the latest ensure_worksheet_and_headers call:     *)
(* the tab and row 1 it found, its header writes, its error, and prev, the *)
(* header writes of the call before it when that call returned (else -1).  *)
CallOf(en) ==
    [called |-> TRUE, writes |-> en.writes, err |-> en.err,
     tabBefore |-> en.tabBefore, rowBefore |-> en.rowBefore,
     prev |-> IF lastEnsure.called /\ lastEnsure.err = NoErr
              THEN lastEnsure.writes ELSE -1]

NoCall ==
    [called |-> FALSE, writes |-> 0, err |-> NoErr, tabBefore |-> FALSE,
     rowBefore |-> <<>>, prev |-> -1]

\* append_row(svc, row)
AppendRow(sh, row, o) ==
    IF o = NoErr THEN [sheet |-> AppendValues(sh, row), err |-> NoErr]
    ELSE [sheet |-> sh, err |-> o]

\* st.cache_data.clear()
ClearedCache == [valid |-> FALSE, df |-> <<>>]

(* load_entries_df_cached under @st.cache_data: a hit returns the stored   *)
(* value without running the body; a body that raises stores nothing.      *)
LoadEntriesDfCached(c, sh, o1, o2, o3, o4) ==
    IF c.valid
    THEN [cache |-> c, sheet |-> sh, ensure |-> lastEnsure,
          df |-> [ok |-> TRUE, rows |-> c.df, remote |-> FALSE]]
    ELSE LET en == EnsureWorksheetAndHeaders(sh, o1, o2, o3)
             failed == [cache |-> c, sheet |-> en.sheet, ensure |-> CallOf(en),
                        df |-> [ok |-> FALSE, rows |-> <<>>, remote |-> TRUE]]
         IN IF en.err # NoErr THEN failed
            ELSE IF o4 # NoErr THEN failed
            ELSE [cache |-> [valid |-> TRUE, df |-> GetDataRows(en.sheet)],
                  sheet |-> en.sheet, ensure |-> CallOf(en),
                  df |-> [ok |-> TRUE, rows |-> GetDataRows(en.sheet),
                          remote |-> TRUE]]

-----------------------------------------------------------------------------
(* The hierarchical file store.  A name is a sequence of text pieces in    *)
(* which a single quote is a piece of its own: "May'24" is                 *)
(* <<"May", "'", "24">>.                                                   *)

\* st.secrets.get("DRIVE_FOLDER_ID", "") when absent
Blank == 0

\* the configured root folder
RootFolder == 1

\* the first id Drive hands out
FirstId == 2

Quote == "'"

AndTitle == " and title = "

\* the rest of q after the title literal: mimeType, parents, trashed
QueryTail == " and mimeType = folder and parent in parents and trashed = false"

\* q = f"title = '{name}' and mimeType = ... and '{parent_id}' in parents ..."
FolderQuery(name) == <<"title = ", Quote>> \o name \o <<Quote, QueryTail>>

InvalidQuery == [valid |-> FALSE, lits |-> {}]

(* How Drive reads q: a conjunction of title = '<literal>' terms followed  *)
(* by the tail.  A literal ends at the first quote, so a quote inside name *)
(* ends it early and what follows must itself be query syntax.             *)
RECURSIVE ParseTitleTerms(_, _)
ParseTitleTerms(q, lits) ==
    IF Len(q) < 4 \/ q[1] # "title = " \/ q[2] # Quote THEN InvalidQuery
    ELSE LET empty == q[3] = Quote
             lit == IF empty THEN "" ELSE q[3]
             close == IF empty THEN 3 ELSE 4
         IN IF Len(q) < close + 1 \/ q[close] # Quote THEN InvalidQuery
            ELSE IF Len(q) = close + 1 /\ q[close + 1] = QueryTail
                THEN [valid |-> TRUE, lits |-> lits \cup {lit}]
            ELSE IF q[close + 1] = AndTitle
                THEN ParseTitleTerms(<<"title = ">> \o SubSeq(q, close + 2, Len(q)),
                                     lits \cup {lit})
            ELSE InvalidQuery

\* drive.ListFile({"q": q}).GetList()
ListFolders(fs, name, parent) ==
    LET p == ParseTitleTerms(FolderQuery(name), {})
    IN IF ~p.valid THEN [err |-> DriveErr, lst |-> {}]
       ELSE [err |-> NoErr,
             lst |-> {f \in fs : /\ ~f.trashed
                                 /\ f.parent = parent
                                 /\ \A l \in p.lits : f.title = <<l>>}]

CreateFolderIfAbsent(fs, nid, name, parent) ==
    IF \E f \in fs : ~f.trashed /\ f.parent = parent /\ f.title = name
    THEN fs
    ELSE fs \cup {[id |-> nid, title |-> name, parent |-> parent,
                   trashed |-> FALSE]}

\* drive.CreateFile({title, mimeType folder, parents}).Upload()
CreateFolder(fs, nid, name, parent) ==
    fs \cup {[id |-> nid, title |-> name, parent |-> parent, trashed |-> FALSE]}

(* ensure_folder run without interruption on d = [folders, files, nextId]. *)
(* fail: the call raises before it changes anything.  lst[0] is modelled   *)
(* by CHOOSE.                                                              *)
EnsureFolder(d, name, parent, fail) ==
    LET l == ListFolders(d.folders, name, parent)
    IN IF fail \/ l.err # NoErr THEN [d |-> d, id |-> Blank, err |-> DriveErr]
       ELSE IF l.lst # {}
           THEN [d |-> d, id |-> (CHOOSE f \in l.lst : TRUE).id, err |-> NoErr]
       ELSE [d |-> [d EXCEPT !.folders = CreateFolder(@, d.nextId, name, parent),
                             !.nextId = @ + 1],
             id |-> d.nextId, err |-> NoErr]

\* the for loop of upload_files_to_drive from file j on; failFile raises
RECURSIVE UploadEach(_, _, _, _, _, _)
UploadEach(d, cat_id, j, n, failFile, lk) ==
    IF j > n THEN [d |-> d, links |-> lk, err |-> NoErr]
    ELSE IF failFile = j THEN [d |-> d, links |-> lk, err |-> DriveErr]
    ELSE UploadEach([d EXCEPT !.files = @ \cup {[id |-> d.nextId, parent |-> cat_id]},
                              !.nextId = @ + 1],
                    cat_id, j + 1, n, failFile, Append(lk, d.nextId))

(* month_id, rm_id, cat_id: the three ensure_folder calls in a row, each   *)
(* under the folder the one before returned; level counts them from 2, and *)
(* the call whose level is fail raises.                                    *)
RECURSIVE EnsurePath(_, _, _, _, _)
EnsurePath(d, names, parent, level, fail) ==
    IF names = <<>> THEN [d |-> d, id |-> parent, err |-> NoErr]
    ELSE LET e == EnsureFolder(d, Head(names), parent, fail = level)
         IN IF e.err # NoErr THEN e
            ELSE EnsurePath(e.d, Tail(names), e.id, level + 1, fail)

(* upload_files_to_drive.  fail: 0 nothing fails; 2, 3, 4 the ensure_folder *)
(* of month, roommate, category; 4 + j the upload of file j.  The grant of *)
(* the public permission changes nothing the model reads and its failure   *)
(* is swallowed.  On an error, links holds what the local list held.       *)
UploadFilesToDrive(d, nfiles, roommate, month, category, fail) ==
    IF DRIVE_FOLDER_ID = Blank \/ nfiles = 0
    THEN [d |-> d, links |-> <<>>, err |-> NoErr]
    ELSE LET c == EnsurePath(d, <<month, roommate, category>>, DRIVE_FOLDER_ID,
                             2, fail)
         IN IF c.err # NoErr THEN [d |-> c.d, links |-> <<>>, err |-> c.err]
            ELSE UploadEach(c.d, c.id, 1, nfiles, fail - 4, <<>>)

-----------------------------------------------------------------------------
(* One script run of one session (Spec).                                   *)

CATEGORIES == <<<<"Rent">>, <<"Utilities">>, <<"PG&E">>>>

\* the roommate whose form is submitted
Roommate == <<"Gautam">>

\* st.text_input("Month (YYYY-MM)"): free text, "" when left empty
MonthInputs == {<<>>, <<"2024-05">>}

NotesInputs == {""}

\* st.file_uploader(accept_multiple_files=True): how many files an item carries
UploadCounts == {0, 2}

MaxFiles == CHOOSE n \in UploadCounts : \A m \in UploadCounts : m <= n

\* the files of the three uploaders of one submission: none anywhere, or
\* MaxFiles on every category but the first
UploadPlans ==
    {[i \in 1..Len(CATEGORIES) |-> 0],
     [i \in 1..Len(CATEGORIES) |-> IF i > 1 THEN MaxFiles ELSE 0]}

\* where the attachment step raises: 0 nowhere, 1 in get_drive_client, 2 in the
\* first ensure_folder, 4 + MaxFiles in the upload of the last file
FailStages == {0, 1, 2, 4 + MaxFiles}

\* the results of the n _retry_sheets calls a handler makes in a row: all
\* return, or call k raises e and the later ones are never made
CallResults(n) ==
    {[i \in 1..n |-> NoErr]}
    \cup {[i \in 1..n |-> IF i = k THEN e ELSE NoErr] :
            k \in 1..n, e \in SheetsCallResults \ {NoErr}}

NoUi ==
    [error |-> NoErr, success |-> -1, warning |-> NoErr, uncaught |-> NoErr,
     notice |-> ""]

NoHist ==
    [started |-> {}, uploadTried |-> {}, attachFailed |-> {},
     appendTried |-> {}, appended |-> {}, sent |-> <<>>, failedAt |-> 0,
     base |-> 0, cleared |-> FALSE]

\* for cat in CATEGORIES: ... if month: pending.append({...})
PendingItems(month, notes, uploads) ==
    IF month = <<>> THEN <<>>
    ELSE [i \in 1..Len(CATEGORIES) |->
            [roommate |-> Roommate, month |-> month, category |-> CATEGORIES[i],
             notes |-> notes, uploads |-> uploads[i]]]

\* "; ".join(links) if links else ""   (the joined links, "" as <<>>)
JoinLinks(lk) == lk

\* row = [timestamp, roommate, month, category, amount, status, date, notes, links]
BuildRow(item, lk) ==
    [roommate |-> item.roommate, month |-> item.month,
     category |-> item.category, notes |-> item.notes,
     file_links |-> JoinLinks(lk)]

LinksAfterAttachmentKeepingPartial(r) == r.links

\* links = [] ... links = upload_files_to_drive(...) ... except Exception
LinksAfterAttachment(r) == IF r.err # NoErr THEN <<>> ELSE r.links

(* The try block of one item: get_drive_client (cached once obtained; fail *)
(* = 1 makes the first obtaining raise), then upload_files_to_drive.       *)
AttachmentStep(item, fail) ==
    LET d == [folders |-> folders, files |-> files, nextId |-> nextId]
    IN IF DRIVE_FOLDER_ID = Blank \/ item.uploads = 0
       THEN [d |-> d, links |-> <<>>, err |-> NoErr, client |-> driveClient,
             tried |-> FALSE]
       ELSE IF ~driveClient /\ fail = 1
       THEN [d |-> d, links |-> <<>>, err |-> DriveErr, client |-> FALSE,
             tried |-> TRUE]
       ELSE LET u == UploadFilesToDrive(d, item.uploads, item.roommate,
                                        item.month, item.category, fail)
            IN [d |-> u.d, links |-> u.links, err |-> u.err, client |-> TRUE,
                tried |-> TRUE]

\* except HttpError as e:
CaughtByAppendHandler(e) == e.kind = "HttpError"

AfterAppendErrorContinue(i, n) ==
    IF i < n THEN [pc |-> "upload", idx |-> i + 1] ELSE [pc |-> "after", idx |-> i]

\* st.error(...); break
AfterAppendError(i, n) == [pc |-> "after", idx |-> i]

\* the loop goes on to the next item, or ends
AfterAppendOk(i, n) ==
    IF i < n THEN [pc |-> "upload", idx |-> i + 1] ELSE [pc |-> "after", idx |-> i]

\* st.success(f"Saved {len(pending)} item(s) for {rm}.")
SavedCount(p, appended) == Len(p)

LegacyRow ==
    [roommate |-> Roommate, month |-> <<"2024-04">>, category |-> <<"Rent">>,
     notes |-> "", file_links |-> <<>>]

\* the workbook as the deployment finds it
InitialSheets ==
    {[tab |-> FALSE, row1 |-> <<>>, data |-> <<>>]}
    \cup {[tab |-> TRUE, row1 |-> r, data |-> d] :
            r \in {HEADERS, <<"wrong", "headers">>, HEADERS \o <<"extra">>},
            d \in {<<LegacyRow>>}}
    \cup {[tab |-> TRUE, row1 |-> <<>>, data |-> <<>>]}

RunIdle ==
    /\ pc = "idle"
    /\ batches = 0
    /\ pending = <<>>
    /\ idx = 0
    /\ links = <<>>
    /\ drive_error = NoErr
    /\ df = [ok |-> FALSE, rows |-> <<>>, remote |-> FALSE]
    /\ ui = NoUi
    /\ hist = NoHist

Sessions == {1, 2}

NoCallInProgress ==
    [pc |-> "idle", month |-> <<>>, roommate |-> <<>>, category |-> <<>>,
     level |-> 0, parent |-> Blank, left |-> 0, calls |-> 0, err |-> NoErr]

SessionsIdle ==
    /\ ds = [s \in Sessions |-> NoCallInProgress]
    /\ dlog = {}
    /\ interleaved = FALSE

Init ==
    /\ RetryInit
    /\ SHEET_ID \in {"", "sheet-id"}
    /\ DRIVE_FOLDER_ID \in {Blank, RootFolder}
    /\ sheet \in InitialSheets
    /\ cache = ClearedCache
    /\ lastEnsure = NoCall
    /\ folders = {}
    /\ files = {}
    /\ nextId = FirstId
    /\ driveClient = FALSE
    /\ RunIdle
    /\ SessionsIdle

\* the requests of one load_entries_df_cached(): none is made on a cache hit
LoadCallResults ==
    IF cache.valid THEN {[i \in 1..4 |-> NoErr]} ELSE CallResults(4)

\* a new script run; the sidebar's load_entries_df_cached() with its try/except
SidebarLoad ==
    /\ pc = "idle"
    /\ \E o \in LoadCallResults :
        LET r == LoadEntriesDfCached(cache, sheet, o[1], o[2], o[3], o[4])
        IN /\ cache' = r.cache
           /\ sheet' = r.sheet
           /\ lastEnsure' = r.ensure
           /\ df' = r.df
    /\ pc' = "form"
    /\ pending' = <<>>
    /\ idx' = 0
    /\ links' = <<>>
    /\ drive_error' = NoErr
    /\ ui' = NoUi
    /\ hist' = NoHist
    /\ UNCHANGED <<sessionVars, retryVars, configVars, driveVars, batches>>

\* no form was submitted in this run
NoSubmit ==
    /\ pc = "form"
    /\ pc' = "summary"
    /\ UNCHANGED <<sessionVars, retryVars, configVars, sheetVars, driveVars, batches,
                   pending, idx, links, drive_error, df, ui, hist>>

\* if submitted: ... up to `drive_error = None`
Submit ==
    /\ pc = "form"
    /\ batches < MaxBatches
    /\ batches' = batches + 1
    /\ \E month \in MonthInputs, notes \in NotesInputs,
          uploads \in UploadPlans :
        LET p == PendingItems(month, notes, uploads)
        IN IF SHEET_ID = "" THEN
                /\ ui' = [ui EXCEPT !.notice = "Please set SHEET_ID"]
                /\ pc' = "summary"
                /\ UNCHANGED <<sheet, lastEnsure, pending, idx, hist>>
           ELSE IF p = <<>> THEN
                /\ ui' = [ui EXCEPT !.notice = "Nothing to save"]
                /\ pc' = "summary"
                /\ UNCHANGED <<sheet, lastEnsure, pending, idx, hist>>
           ELSE \E o \in CallResults(3) :
                LET en == EnsureWorksheetAndHeaders(sheet, o[1], o[2], o[3])
                IN /\ sheet' = en.sheet
                   /\ lastEnsure' = CallOf(en)
                   /\ pending' = p
                   /\ IF en.err # NoErr
                      THEN /\ ui' = [ui EXCEPT !.uncaught = en.err]
                           /\ pc' = "idle"
                           /\ UNCHANGED <<idx, hist>>
                      ELSE /\ pc' = "upload"
                           /\ idx' = 1
                           /\ hist' = [hist EXCEPT !.base = Len(en.sheet.data)]
                           /\ UNCHANGED ui
    /\ UNCHANGED <<sessionVars, retryVars, configVars, cache, driveVars, links,
                   drive_error, df>>

\* for item in pending: links = []; try: ... except Exception as e: drive_error = e
UploadStep ==
    /\ pc = "upload"
    /\ \E fail \in FailStages :
        LET r == AttachmentStep(pending[idx], fail)
        IN /\ folders' = r.d.folders
           /\ files' = r.d.files
           /\ nextId' = r.d.nextId
           /\ driveClient' = r.client
           /\ links' = LinksAfterAttachment(r)
           /\ drive_error' = IF r.err # NoErr THEN r.err ELSE drive_error
           /\ hist' = [hist EXCEPT
                         !.started = @ \cup {idx},
                         !.uploadTried = IF r.tried THEN @ \cup {idx} ELSE @,
                         !.attachFailed = IF r.err # NoErr THEN @ \cup {idx} ELSE @]
    /\ pc' = "append"
    /\ UNCHANGED <<sessionVars, retryVars, configVars, sheetVars, batches, pending, idx,
                   df, ui>>

\* row = [...]; try: append_row(sheets, row) except HttpError: st.error; break
AppendStep ==
    /\ pc = "append"
    /\ \E o \in SheetsCallResults :
        LET row == BuildRow(pending[idx], links)
            r == AppendRow(sheet, row, o)
            h == [hist EXCEPT !.appendTried = @ \cup {idx},
                              !.sent = Append(@, row)]
            next == IF r.err = NoErr THEN AfterAppendOk(idx, Len(pending))
                    ELSE AfterAppendError(idx, Len(pending))
        IN /\ sheet' = r.sheet
           /\ IF r.err = NoErr THEN
                /\ hist' = [h EXCEPT !.appended = @ \cup {idx}]
                /\ pc' = next.pc
                /\ idx' = next.idx
                /\ UNCHANGED ui
              ELSE IF CaughtByAppendHandler(r.err) THEN
                /\ hist' = [h EXCEPT !.failedAt = idx]
                /\ ui' = [ui EXCEPT !.error = r.err]
                /\ pc' = next.pc
                /\ idx' = next.idx
              ELSE
                /\ hist' = [h EXCEPT !.failedAt = idx]
                /\ ui' = [ui EXCEPT !.uncaught = r.err]
                /\ pc' = "idle"
                /\ UNCHANGED idx
    /\ UNCHANGED <<sessionVars, retryVars, configVars, cache, lastEnsure, driveVars,
                   batches, pending, links, drive_error, df>>

\* st.success(...); if drive_error: st.warning(...); st.cache_data.clear()
FinishBatch ==
    /\ pc = "after"
    /\ ui' = [ui EXCEPT !.success = SavedCount(pending, hist.appended),
                        !.warning = drive_error]
    /\ cache' = ClearedCache
    /\ hist' = [hist EXCEPT !.cleared = TRUE]
    /\ pc' = "summary"
    /\ UNCHANGED <<sessionVars, retryVars, configVars, sheet, lastEnsure, driveVars,
                   batches, pending, idx, links, drive_error, df>>

\* the Summary section's load_entries_df_cached() with its try/except
SummaryLoad ==
    /\ pc = "summary"
    /\ \E o \in LoadCallResults :
        LET r == LoadEntriesDfCached(cache, sheet, o[1], o[2], o[3], o[4])
        IN /\ cache' = r.cache
           /\ sheet' = r.sheet
           /\ lastEnsure' = r.ensure
           /\ df' = r.df
    /\ pc' = "idle"
    /\ UNCHANGED <<sessionVars, retryVars, configVars, driveVars, batches, pending,
                   idx, links, drive_error, ui, hist>>

Next ==
    \/ SidebarLoad
    \/ NoSubmit
    \/ Submit
    \/ UploadStep
    \/ AppendStep
    \/ FinishBatch
    \/ SummaryLoad

Spec == Init /\ [][Next]_vars

-----------------------------------------------------------------------------
(* The retry executor on its own.                                          *)

RetryNext ==
    \/ RetryAttemptOk
    \/ RetryAttemptTransient
    \/ RetryAttemptPermanent
    \/ RetryExhausted

InitRetry ==
    /\ RetryInit
    /\ SHEET_ID = "sheet-id"
    /\ DRIVE_FOLDER_ID = RootFolder
    /\ sheet = [tab |-> FALSE, row1 |-> <<>>, data |-> <<>>]
    /\ cache = ClearedCache
    /\ lastEnsure = NoCall
    /\ folders = {}
    /\ files = {}
    /\ nextId = FirstId
    /\ driveClient = FALSE
    /\ RunIdle
    /\ SessionsIdle

SpecRetry == InitRetry /\ [][RetryNext]_vars

-----------------------------------------------------------------------------
(* Sessions uploading concurrently (SpecDrive).  Each Streamlit session    *)
(* runs its script on a thread of its own; Drive is shared.  Every Drive   *)
(* request of upload_files_to_drive is one step.                           *)

\* months typed into the form: a plain one, one with an unbalanced quote,
\* and "2024-05' and title = '2024"
DriveMonths ==
    {<<"2024-05">>, <<"May", Quote, "24">>,
     <<"2024-05", Quote, AndTitle, Quote, "2024">>}

DriveCategories == {CATEGORIES[1], CATEGORIES[2]}

\* how many files a call of SpecDrive carries
DriveFileCounts == {0, 1}

RECURSIVE SumCalls(_)
SumCalls(S) ==
    IF S = {} THEN 0
    ELSE LET s == CHOOSE x \in S : TRUE IN ds[s].calls + SumCalls(S \ {s})

\* the name ensure_folder is called with at each level of the path
NameAt(c) ==
    IF c.level = 1 THEN c.month
    ELSE IF c.level = 2 THEN c.roommate
    ELSE c.category

\* ensure_folder returned id: the next ensure_folder, or the for loop
Advance(c, id) ==
    IF c.level < 3
    THEN [c EXCEPT !.level = @ + 1, !.parent = id, !.pc = "list"]
    ELSE [c EXCEPT !.parent = id, !.pc = "files"]

\* another session stands between its lookup and its create
InsideAnotherCall(s) == \E t \in Sessions \ {s} : ds[t].pc = "create"

\* a folder kept under the trash of the root before the sessions start
TrashedFolder ==
    [id |-> FirstId, title |-> <<"2024-05">>, parent |-> RootFolder,
     trashed |-> TRUE]

InitDrive ==
    /\ RetryInit
    /\ SHEET_ID = "sheet-id"
    /\ DRIVE_FOLDER_ID = RootFolder
    /\ sheet = [tab |-> FALSE, row1 |-> <<>>, data |-> <<>>]
    /\ cache = ClearedCache
    /\ lastEnsure = NoCall
    /\ folders = {TrashedFolder}
    /\ files = {}
    /\ nextId = FirstId + 1
    /\ driveClient = TRUE
    /\ RunIdle
    /\ SessionsIdle

\* upload_files_to_drive(drive, files, roommate=, month=, category=) is called
DriveStart(s) ==
    /\ ds[s].pc = "idle"
    /\ SumCalls(Sessions) < MaxCalls
    /\ \E month \in DriveMonths, category \in DriveCategories, n \in DriveFileCounts :
        IF DRIVE_FOLDER_ID = Blank \/ n = 0
        THEN ds' = [ds EXCEPT ![s].calls = @ + 1, ![s].err = NoErr]
        ELSE ds' = [ds EXCEPT ![s] =
                      [pc |-> "list", month |-> month, roommate |-> Roommate,
                       category |-> category, level |-> 1,
                       parent |-> DRIVE_FOLDER_ID, left |-> n,
                       calls |-> @.calls + 1, err |-> NoErr]]
    /\ UNCHANGED <<retryVars, configVars, sheetVars, runVars, dlog, interleaved, folders, files, nextId,
                   driveClient>>

\* ensure_folder: lst = drive.ListFile({"q": q}).GetList(); if lst: return lst[0]["id"]
DriveList(s) ==
    /\ ds[s].pc = "list"
    /\ LET c == ds[s]
           l == ListFolders(folders, NameAt(c), c.parent)
       IN IF l.err # NoErr THEN
               /\ ds' = [ds EXCEPT ![s].pc = "idle", ![s].err = l.err]
               /\ UNCHANGED dlog
          ELSE IF l.lst # {} THEN
               \E f \in l.lst :
                   /\ ds' = [ds EXCEPT ![s] = Advance(c, f.id)]
                   /\ dlog' = dlog \cup
                        {[name |-> NameAt(c), parent |-> c.parent, id |-> f.id,
                          created |-> FALSE]}
          ELSE /\ ds' = [ds EXCEPT ![s].pc = "create"]
               /\ UNCHANGED dlog
    /\ interleaved' = (interleaved \/ InsideAnotherCall(s))
    /\ UNCHANGED <<retryVars, configVars, sheetVars, runVars, folders, files, nextId,
                   driveClient>>

\* ensure_folder: folder = drive.CreateFile({...}); folder.Upload(); return folder["id"]
DriveCreate(s) ==
    /\ ds[s].pc = "create"
    /\ LET c == ds[s]
       IN /\ folders' = CreateFolder(folders, nextId, NameAt(c), c.parent)
          /\ nextId' = nextId + 1
          /\ ds' = [ds EXCEPT ![s] = Advance(c, nextId)]
          /\ dlog' = dlog \cup
                {[name |-> NameAt(c), parent |-> c.parent, id |-> nextId,
                  created |-> TRUE]}
    /\ interleaved' = (interleaved \/ InsideAnotherCall(s))
    /\ UNCHANGED <<retryVars, configVars, sheetVars, runVars, files, driveClient>>

\* for filename, data in files: f = drive.CreateFile(...); f.Upload(); links.append(...)
DriveUploadFile(s) ==
    /\ ds[s].pc = "files"
    /\ files' = files \cup {[id |-> nextId, parent |-> ds[s].parent]}
    /\ nextId' = nextId + 1
    /\ ds' = [ds EXCEPT ![s].left = @ - 1,
                        ![s].pc = IF ds[s].left = 1 THEN "idle" ELSE "files"]
    /\ UNCHANGED <<retryVars, configVars, sheetVars, runVars, dlog, interleaved, folders,
                   driveClient>>

\* a Drive request raises: the exception leaves upload_files_to_drive
DriveRaise(s) ==
    /\ ds[s].pc \in {"list", "create", "files"}
    /\ ds' = [ds EXCEPT ![s].pc = "idle", ![s].err = DriveErr]
    /\ UNCHANGED <<retryVars, configVars, sheetVars, runVars, dlog, interleaved, folders, files, nextId,
                   driveClient>>

DriveNext ==
    \E s \in Sessions :
        \/ DriveStart(s)
        \/ DriveList(s)
        \/ DriveCreate(s)
        \/ DriveUploadFile(s)
        \/ DriveRaise(s)

SpecDrive == InitDrive /\ [][DriveNext]_vars

-----------------------------------------------------------------------------
(* Properties.                                                             *)

\* a transient server error: an HTTP status in 500..599
ServerError5xx(e) == e.kind = "HttpError" /\ e.status \in 500..599

AllAttemptsFailed5xx ==
    /\ r_pc # "returned"
    /\ \A i \in 1..Len(r_errors) : ServerError5xx(r_errors[i])

(* C1 (SpecRetry).  The operation is never invoked a 6th time.  While every *)
(* invocation fails with a 5xx status, a wait follows each failure and the *)
(* waits are 1, 2, 4, 8, 8 in this order, so the waits between the five    *)
(* attempts are 1, 2, 4, 8; the executor raises only after exactly 5       *)
(* invocations, and what it raises is the error of the 5th.                *)
C1_RetryBound ==
    /\ r_attempts <= 5
    /\ AllAttemptsFailed5xx =>
        /\ r_attempts = Len(r_errors)
        /\ Len(r_sleeps) = Len(r_errors)
        /\ \A i \in 1..Len(r_sleeps) : r_sleeps[i] = <<1, 2, 4, 8, 8>>[i]
        /\ r_pc = "raised" =>
            /\ r_attempts = 5
            /\ SubSeq(r_sleeps, 1, 4) = <<1, 2, 4, 8>>
            /\ r_raised = r_errors[5]

\* five 5xx failures, the last one different from the first, then the raise
C1_Witness ==
    /\ r_pc = "raised"
    /\ Len(r_errors) = 5
    /\ AllAttemptsFailed5xx
    /\ r_errors[1] = HttpErr(503)
    /\ r_errors[5] = HttpErr(500)

(* C2 (SpecRetry).  A failure that is not a 5xx HttpError, at whichever     *)
(* attempt it comes, is the last thing the executor sees: it is the error  *)
(* raised, no wait follows it (the waits are those of the failures before  *)
(* it) and the operation is not invoked again.                             *)
C2_FailFast ==
    \A i \in 1..Len(r_errors) :
        ~ServerError5xx(r_errors[i]) =>
            /\ i = Len(r_errors)
            /\ r_pc = "raised"
            /\ r_raised = r_errors[i]
            /\ r_attempts = i
            /\ Len(r_sleeps) = i - 1

\* a 404 at the third attempt, after two 5xx failures
C2_Witness ==
    /\ r_pc = "raised"
    /\ Len(r_errors) = 3
    /\ ServerError5xx(r_errors[1])
    /\ ServerError5xx(r_errors[2])
    /\ r_errors[3] = HttpErr(404)
    /\ r_sleeps = <<1, 2>>

(* C3 (Spec).  When the append of item k failed: items 1..k-1 are the rows  *)
(* the batch added to the table, in order and as sent; the error is shown  *)
(* (st.error) or leaves the script uncaught; and no iteration, upload or   *)
(* append was started for an item after k, up to the end of the run.       *)
C3_PartialFailure ==
    hist.failedAt # 0 =>
        LET k == hist.failedAt
        IN /\ hist.appended = 1..(k - 1)
           /\ Len(sheet.data) = hist.base + k - 1
           /\ \A i \in 1..(k - 1) : sheet.data[hist.base + i] = hist.sent[i]
           /\ ui.error # NoErr \/ ui.uncaught # NoErr
           /\ hist.started = 1..k
           /\ hist.uploadTried \subseteq 1..k
           /\ hist.appendTried = 1..k
           /\ pc \notin {"upload", "append"}

\* item 2 of 3 failed with an HttpError, item 3 carried files, the run went on
C3_Witness ==
    /\ hist.failedAt = 2
    /\ ui.error # NoErr
    /\ pc = "summary"
    /\ Len(pending) = 3
    /\ pending[3].uploads > 0
    /\ DRIVE_FOLDER_ID # Blank

(* C4 (Spec).  Once a batch that appended a row is over, ended by the loop *)
(* or by a failed append, no snapshot taken before its rows is left in the *)
(* cache, and the load that opens the next run returns every row of the    *)
(* table.                                                                  *)
ClaimC4_CacheInvalidated ==
    /\ (hist.appended # {} /\ pc \in {"summary", "idle"}) =>
            (cache.valid => cache.df = sheet.data)
    /\ (pc = "form" /\ df.ok) => df.rows = sheet.data

(* C5 (Spec).  For every item whose attachment step raised: the error is   *)
(* kept in drive_error; the append of the item comes next and the row sent *)
(* has empty file_links; when that append succeeds the row stored has      *)
(* empty file_links and the loop goes on with the next item; and the       *)
(* batch's closing messages include the warning.                           *)
C5_AttachmentFailureNonFatal ==
    \A i \in hist.attachFailed :
        /\ drive_error # NoErr
        /\ i \in hist.appendTried \/ (pc = "append" /\ idx = i /\ links = <<>>)
        /\ i \in hist.appendTried => hist.sent[i].file_links = <<>>
        /\ i \in hist.appended =>
            /\ sheet.data[hist.base + i].file_links = <<>>
            /\ i < Len(pending) =>
                (pc = "upload" /\ idx = i + 1) \/ (i + 1) \in hist.started
        /\ hist.cleared => ui.warning # NoErr

\* item 2 lost its second file after the first was uploaded; all three rows
\* were appended, the third with its links, and the warning shown
C5_Witness ==
    /\ pc = "summary"
    /\ hist.attachFailed = {2}
    /\ hist.appended = {1, 2, 3}
    /\ pending[1].uploads = 0
    /\ pending[3].uploads > 0
    /\ Cardinality(files) = 1 + pending[3].uploads
    /\ sheet.data[hist.base + 2].file_links = <<>>
    /\ sheet.data[hist.base + 3].file_links # <<>>
    /\ ui.warning # NoErr

(* C6 (Spec).  Every step keeps the data rows it found, in place and       *)
(* unchanged, and can only add rows after them; the steps that run         *)
(* ensure_worksheet_and_headers or a load add none.                        *)
C6_AppendOnly ==
    [][/\ Len(sheet'.data) >= Len(sheet.data)
       /\ SubSeq(sheet'.data, 1, Len(sheet.data)) = sheet.data
       /\ pc \in {"idle", "form", "summary"} => sheet'.data = sheet.data]_vars

\* the header was written over a mismatching first row above an existing row
C6_Witness ==
    /\ lastEnsure.called
    /\ lastEnsure.writes = 1
    /\ lastEnsure.rowBefore = <<"wrong", "headers">>
    /\ Len(sheet.data) > 1
    /\ sheet.data[1] = LegacyRow

\* the first 9 cells of a row are the canonical header
CanonicalHeader(row) == Len(row) >= 9 /\ SubSeq(row, 1, 9) = HEADERS

(* C7 (Spec).  A call of ensure_worksheet_and_headers that found the tab   *)
(* and returned made one header write if the first row was empty or        *)
(* differed from the header and none if it equalled it; after a call that  *)
(* returned the first row is the header; a call that follows one that      *)
(* returned writes nothing; and from any table, a second call right after  *)
(* a first writes nothing and leaves the table as the first left it.       *)
C7_HeaderEnsureIdempotent ==
    /\ (lastEnsure.called /\ lastEnsure.err = NoErr) =>
        /\ CanonicalHeader(sheet.row1)
        /\ lastEnsure.tabBefore =>
            lastEnsure.writes = IF CanonicalHeader(lastEnsure.rowBefore) THEN 0 ELSE 1
        /\ lastEnsure.prev # -1 => lastEnsure.writes = 0
    /\ SHEET_ID # "" =>
        LET e1 == EnsureWorksheetAndHeaders(sheet, NoErr, NoErr, NoErr)
            e2 == EnsureWorksheetAndHeaders(e1.sheet, NoErr, NoErr, NoErr)
        IN /\ e1.err = NoErr /\ e2.err = NoErr
           /\ e2.writes = 0
           /\ e2.sheet = e1.sheet

\* a call that wrote the header over a wrong row, then a call that wrote nothing
C7_Witness ==
    /\ lastEnsure.called
    /\ lastEnsure.err = NoErr
    /\ lastEnsure.prev = 1
    /\ lastEnsure.writes = 0
    /\ lastEnsure.tabBefore
    /\ sheet.data # <<>>

\* the folders a lookup by exact name is meant to find
SameKey(fs, name, parent) ==
    {f \in fs : ~f.trashed /\ f.parent = parent /\ f.title = name}

NoDuplicateFolders ==
    \A f, g \in folders :
        (~f.trashed /\ ~g.trashed /\ f.title = g.title /\ f.parent = g.parent)
            => f.id = g.id

(* C8 (SpecDrive).  As long as no ensure_folder call ran inside another,   *)
(* calls with the same (name, parent) all returned the same id, at most    *)
(* one of them created a folder, and no two non-trashed folders share a    *)
(* name under one parent.                                                  *)
ClaimC8_FolderIdempotency ==
    ~interleaved =>
        /\ \A a, b \in dlog :
              (a.name = b.name /\ a.parent = b.parent) => a.id = b.id
        /\ NoDuplicateFolders

(* C9 (SpecDrive).  The create of ensure_folder is unconditional: when a   *)
(* session that looked up (name, parent) and found nothing creates its     *)
(* folder, the number of non-trashed folders with that name under that     *)
(* parent grows by one, whatever other sessions created since the lookup.  *)
C9_LookThenCreateRace ==
    [][\A s \in Sessions :
          (ds[s].pc = "create" /\ ds'[s].pc # "create" /\ ds'[s].err = NoErr) =>
              Cardinality(SameKey(folders', NameAt(ds[s]), ds[s].parent))
                = Cardinality(SameKey(folders, NameAt(ds[s]), ds[s].parent)) + 1]_vars

\* two sessions both missed "2024-05" under the root and both created it
C9_Witness ==
    /\ interleaved
    /\ Cardinality(SameKey(folders, <<"2024-05">>, RootFolder)) = 2
    /\ \E a, b \in dlog :
          /\ a.name = <<"2024-05">> /\ b.name = <<"2024-05">>
          /\ a.parent = RootFolder /\ b.parent = RootFolder
          /\ a.created /\ b.created /\ a.id # b.id

(* C10 (Spec).  The count in the success message is the number of rows the *)
(* batch appended.                                                         *)
ClaimC10_TruthfulSaveReport ==
    ui.success # -1 => ui.success = Cardinality(hist.appended)

====
